---- MODULE Spec2Model ----
(***************************************************************************)
(* Forecasting core of CryptoBeacon (backend/app/intelligence/forecast.py) *)
(*                                                                         *)
(* Prices are Python floats.  They are modelled as binary floating-point   *)
(* numbers with a mantissa of Prec bits and an unbounded exponent, every   *)
(* arithmetic operation rounding its exact result once, to nearest, ties   *)
(* to even, as IEEE 754 does.  A number is a record [m, e] standing for    *)
(* m * 2^e, with m = 0 or 2^(Prec-1) <= |m| < 2^Prec.  NaN, infinities,    *)
(* overflow and underflow of the exponent are not modelled.                *)
(***************************************************************************)
EXTENDS Integers, Sequences, FiniteSets, TLC

\* Bits of mantissa of the modelled floats (53 for a Python float).
Prec == 4
\* Longest input series drawn.
MaxLen == 31
\* Longest forecast horizon drawn.
MaxDays == 2

(***************************************************************************)
(* Floating-point arithmetic                                               *)
(***************************************************************************)
Pow2(k) == IF k <= 0 THEN 1 ELSE 2 ^ k

Pow10(k) == IF k <= 0 THEN 1 ELSE 10 ^ k

RECURSIVE BitLen(_)
BitLen(n) == IF n <= 0 THEN 0 ELSE 1 + BitLen(n \div 2)

Abs(n) == IF n < 0 THEN -n ELSE n

Sgn(n) == IF n < 0 THEN -1 ELSE IF n > 0 THEN 1 ELSE 0

Zero == [m |-> 0, e |-> 0]

\* Quotient q and remainder r of the bits kept and dropped: round to nearest,
\* ties to even, and renormalize when the mantissa overflows.
RoundQ(q, r, half, e, sg) ==
    IF r > half \/ (r = half /\ q % 2 = 1)
    THEN IF q + 1 = Pow2(Prec)
         THEN [m |-> sg * Pow2(Prec - 1), e |-> e + 1]
         ELSE [m |-> sg * (q + 1), e |-> e]
    ELSE [m |-> sg * q, e |-> e]

\* a * 2^e rounded to Prec bits, for a > 0 of `bits` bits, with sign sg.
RoundBits(a, bits, e, sg) ==
    IF bits <= Prec
    THEN [m |-> sg * a * Pow2(Prec - bits), e |-> e - (Prec - bits)]
    ELSE RoundQ(a \div Pow2(bits - Prec), a % Pow2(bits - Prec),
                Pow2(bits - Prec - 1), e + bits - Prec, sg)

NormalizeV(n, e) ==
    IF n = 0 THEN Zero ELSE RoundBits(Abs(n), BitLen(Abs(n)), e, Sgn(n))

\* The float nearest to the exact value n * 2^e.  (The arguments of the
\* arithmetic operators are bound to their values before use.)
Normalize(n, e) == CHOOSE r \in {NormalizeV(x, y) : x \in {n}, y \in {e}} : TRUE

\* a / d * 2^e with t extra bits of quotient and a sticky bit.
DivQ(a, d, t, e, sg) ==
    Normalize(sg * (2 * ((a * Pow2(t)) \div d)
                    + (IF (a * Pow2(t)) % d = 0 THEN 0 ELSE 1)), e - t - 1)

DivRoundV(n, d, e) ==
    IF n = 0 THEN Zero
    ELSE IF Prec + 2 + BitLen(d) - BitLen(Abs(n)) < 0
    THEN DivQ(Abs(n), d, 0, e, Sgn(n))
    ELSE DivQ(Abs(n), d, Prec + 2 + BitLen(d) - BitLen(Abs(n)), e, Sgn(n))

\* The float nearest to the exact value (n / d) * 2^e, d > 0.
DivRound(n, d, e) ==
    CHOOSE r \in {DivRoundV(x, y, z) : x \in {n}, y \in {d}, z \in {e}} : TRUE

FromInt(n) == Normalize(n, 0)

\* The float literal n/d, as the compiler rounds it.
FromRatio(n, d) == DivRound(n, d, 0)

FNeg(a) == CHOOSE r \in {[m |-> -x.m, e |-> x.e] : x \in {a}} : TRUE

FAddV(a, b) ==
    IF a.m = 0 THEN b
    ELSE IF b.m = 0 THEN a
    ELSE IF a.e - b.e > Prec + 2 THEN a
    ELSE IF b.e - a.e > Prec + 2 THEN b
    ELSE IF a.e < b.e
    THEN Normalize(a.m + b.m * Pow2(b.e - a.e), a.e)
    ELSE Normalize(a.m * Pow2(a.e - b.e) + b.m, b.e)

FAdd(a, b) == CHOOSE r \in {FAddV(x, y) : x \in {a}, y \in {b}} : TRUE

FSub(a, b) == FAdd(a, FNeg(b))

FMul(a, b) ==
    CHOOSE r \in {Normalize(x.m * y.m, x.e + y.e) : x \in {a}, y \in {b}} : TRUE

\* a / b for b # 0.
FDiv(a, b) ==
    CHOOSE r \in {DivRound(x.m * Sgn(y.m), Abs(y.m), x.e - y.e) :
                  x \in {a}, y \in {b}} : TRUE

\* float * int and float / int, the int converted exactly (10^k is a float
\* for k <= 22).
FMulInt(a, f) == CHOOSE r \in {Normalize(x.m * f, x.e) : x \in {a}} : TRUE

FDivInt(a, f) == CHOOSE r \in {DivRound(x.m, f, x.e) : x \in {a}} : TRUE

\* Sign of a - b: rounding never changes the sign of a difference.
FCmp(a, b) == Sgn(FSub(a, b).m)

FLt(a, b) == FCmp(a, b) < 0

FLeq(a, b) == FCmp(a, b) <= 0

FMax(a, b) ==
    CHOOSE r \in {IF FLt(x, y) THEN y ELSE x : x \in {a}, y \in {b}} : TRUE

FMin(a, b) ==
    CHOOSE r \in {IF FLt(y, x) THEN y ELSE x : x \in {a}, y \in {b}} : TRUE

\* Python's sum(): 0 + xs[1] + xs[2] + ..., left to right.
RECURSIVE FSumV(_, _)
FSumV(xs, n) ==
    IF n = 0 THEN Zero
    ELSE CHOOSE r \in {FAdd(FSumV(x, m), x[n]) : x \in {xs}, m \in {n - 1}} : TRUE

FSum(xs) == CHOOSE r \in {FSumV(x, Len(x)) : x \in {xs}} : TRUE

Last(xs) == xs[Len(xs)]

Repeat(x, n) == [i \in 1..n |-> x]

(***************************************************************************)
(* Results of a call: a returned value, or an exception.                   *)
(***************************************************************************)
Ret(v) == [ok |-> TRUE, val |-> v]

Raise == [ok |-> FALSE, val |-> <<>>]

(***************************************************************************)
(* Scale normalizer                                                        *)
(***************************************************************************)
LowPrice == FromRatio(1, 100)

\* Mutant: the target range is ~$1000.
TargetPrice1000 == FromInt(1000)

TargetPrice == FromInt(10)

\* np.mean of a non-empty list: the float sum divided by the count.
Mean(prices) == FDivInt(FSum(prices), Len(prices))

\* floor(10^(k + 1/2)), k = 0..7.
HalfDecade == <<3, 31, 316, 3162, 31622, 316227, 3162277, 31622776>>

\* The k with 10^(k - 1/2) <= v < 10^(k + 1/2), for an integer v >= 1.
Log10Int(v) ==
    CHOOSE k \in 0..Len(HalfDecade) - 1 :
        /\ v <= HalfDecade[k + 1]
        /\ k > 0 => v > HalfDecade[k]

\* Mutant: the logarithm is truncated, not rounded.
Log10Floor(x) ==
    CHOOSE k \in 0..Len(HalfDecade) :
        \E v \in {IF x.e >= 0 THEN x.m * Pow2(x.e) ELSE x.m \div Pow2(-x.e)} :
            /\ v < Pow10(k + 1)
            /\ k > 0 => v >= Pow10(k)

\* round(np.log10(x)), for a float x that is 1.0 or integer-valued (here x
\* is 1.0 or 10.0 / avg_price with avg_price < 0.01).
Log10Round(x) ==
    CHOOSE r \in {Log10Int(IF y.e >= 0 THEN y.m * Pow2(y.e) ELSE y.m \div Pow2(-y.e)) :
                  y \in {x}} : TRUE

\* Mutant: the threshold test excludes the boundary (avg_price > 0.01).
FactorForStrict(avg_price) ==
    IF FLt(LowPrice, avg_price) THEN 1
    ELSE Pow10(Log10Round(IF FLt(Zero, avg_price)
                          THEN FDiv(TargetPrice, avg_price)
                          ELSE FromInt(1)))

\* _calculate_scale_factor from "if avg_price >= 0.01" on.
FactorFor(avg_price) ==
    IF FLeq(LowPrice, avg_price) THEN 1
    ELSE Pow10(Log10Round(IF FLt(Zero, avg_price)
                          THEN FDiv(TargetPrice, avg_price)
                          ELSE FromInt(1)))

\* 1, or the power of ten nearest to 10 / mean.
_calculate_scale_factor(prices) ==
    IF Len(prices) = 0 THEN 1
    ELSE CHOOSE r \in {FactorFor(avg_price) : avg_price \in {Mean(prices)}} : TRUE

_scale_prices(prices, scale_factor) ==
    [i \in 1..Len(prices) |-> FMulInt(prices[i], scale_factor)]

\* Mutant: descaling multiplies instead of dividing.
_descale_prices_mul(prices, scale_factor) ==
    [i \in 1..Len(prices) |-> FMulInt(prices[i], scale_factor)]

_descale_prices(prices, scale_factor) ==
    [i \in 1..Len(prices) |-> FDivInt(prices[i], scale_factor)]

(***************************************************************************)
(* Anchoring and the trend fallback                                        *)
(***************************************************************************)
\* [p + offset for p in predictions]
Shifted(predictions, offset) ==
    [i \in 1..Len(predictions) |-> FAdd(predictions[i], offset)]

\* offset = current_price - predictions[0]; predictions[0] raises IndexError
\* on an empty list.
AnchorV(predictions, current_price) ==
    IF Len(predictions) = 0 THEN Raise
    ELSE Ret(Shifted(predictions, FSub(current_price, predictions[1])))

\* Mutant: the predictions are returned as the model gave them.
AnchorNone(predictions, current_price) ==
    IF Len(predictions) = 0 THEN Raise ELSE Ret(predictions)

\* "Anchor to current price", as each model forecaster ends.
Anchor(predictions, current_price) ==
    CHOOSE r \in {AnchorV(p, c) : p \in {predictions}, c \in {current_price}} : TRUE

Dampen == FromRatio(6, 10)

Decay == FromRatio(5, 100)

ClampLow == FromRatio(8, 10)

ClampHigh == FromRatio(12, 10)

\* trend_change = slope * (1 - 0.05 * i)
TrendChange(slope, i) == FMul(slope, FSub(FromInt(1), FMul(Decay, FromInt(i))))

\* Mutant: the +-20% band follows the previous day, not the current price.
NextPriceRolling(i, last_price, current_price, slope) ==
    FMin(FMax(FAdd(last_price, TrendChange(slope, i)), FMul(last_price, ClampLow)),
         FMul(last_price, ClampHigh))

\* next_price of forecast day i (0-based), clamped to +-20% of current_price.
NextPrice(i, last_price, current_price, slope) ==
    FMin(FMax(FAdd(last_price, TrendChange(slope, i)), FMul(current_price, ClampLow)),
         FMul(current_price, ClampHigh))

\* The forecast loop of _simple_fallback from day i on.
RECURSIVE FallbackLoop(_, _, _, _, _)
FallbackLoop(i, days, last_price, current_price, slope) ==
    IF i >= days THEN <<>>
    ELSE CHOOSE r \in {<<next_price>>
                       \o FallbackLoop(i + 1, days, next_price, current_price, slope) :
                       next_price \in {NextPrice(i, last_price, current_price, slope)}} :
             TRUE

\* Mutant: the loop starts at day 1 (range(1, days)).
_simple_fallback_from1(prices, days, coef) ==
    IF Len(prices) = 0 THEN Raise
    ELSE IF Len(prices) < 2 THEN Ret(Repeat(Last(prices), days))
    ELSE Ret(FallbackLoop(1, days, Last(prices), Last(prices), FMul(coef, Dampen)))

\* Mutant: a one-point series is not returned early but extrapolated.
_simple_fallback_noshort(prices, days, coef) ==
    IF Len(prices) = 0 THEN Raise
    ELSE Ret(FallbackLoop(0, days, Last(prices), Last(prices), FMul(coef, Dampen)))

\* coef is coefficients[0] of np.polyfit on the recent window.
_simple_fallback(prices, days, coef) ==
    IF Len(prices) = 0 THEN Raise
    ELSE IF Len(prices) < 2 THEN Ret(Repeat(Last(prices), days))
    ELSE Ret(FallbackLoop(0, days, Last(prices), Last(prices), FMul(coef, Dampen)))

(***************************************************************************)
(* Model-library forecasters.  xgboost, prophet, pmdarima and tensorflow   *)
(* are imported inside the functions that use them: a call may raise (the  *)
(* library is missing, a fit fails) or yield a curve of `days` values.     *)
(* The outcome `lib` of the library part is an input of each operator.     *)
(***************************************************************************)
\* Mutant: a table of fewer than 22 rows is refused.
TrainingRowsAtLeast22(n) == IF n - 22 < 22 THEN 0 ELSE n - 22

\* Rows of the feature table left to train on: rows are valid from index 21
\* on (lag_21), and the last one has no target.
TrainingRows(n) == IF n - 22 < 0 THEN 0 ELSE n - 22

\* model.fit raises on an empty table.
_xgboost_forecast(prices, days, lib) ==
    IF ~lib.ok \/ TrainingRows(Len(prices)) = 0 THEN Raise
    ELSE Anchor(lib.val, Last(prices))

\* current_prices when the prediction loop ends: the history with each
\* prediction appended.
WorkingHistory(prices, predictions) == prices \o predictions

\* Mutant: current_prices is the argument itself, so the appends reach it.
ArgumentAliased(prices, days, lib) ==
    IF ~lib.ok \/ TrainingRows(Len(prices)) = 0 THEN prices
    ELSE WorkingHistory(prices, lib.val)

\* The list passed as `prices` when _xgboost_forecast ends: the loop works on
\* current_prices = list(prices), a copy.
ArgumentAfter(prices, days, lib) ==
    IF ~lib.ok \/ TrainingRows(Len(prices)) = 0 THEN prices
    ELSE SubSeq(WorkingHistory(prices, lib.val), 1, Len(prices))

\* Prophet refuses fewer than 2 rows.
\* Mutant: the statistical forecaster returns the library's curve as it is.
_prophet_forecast_unanchored(prices, days, lib) ==
    IF ~lib.ok \/ Len(prices) < 2 THEN Raise ELSE Ret(lib.val)

_prophet_forecast(prices, days, lib) ==
    IF ~lib.ok \/ Len(prices) < 2 THEN Raise
    ELSE Anchor(lib.val, Last(prices))

lookback == 30

\* Mutant: a series of lookback points is enough.
_lstm_forecast_from_lookback(prices, days, lib) ==
    IF ~lib.ok \/ Len(prices) - lookback < 0 THEN Raise
    ELSE Anchor(lib.val, Last(prices))

\* create_sequences builds one example per i in range(lookback, len); with
\* no example X.shape[1] raises.
_lstm_forecast(prices, days, lib) ==
    IF ~lib.ok \/ Len(prices) - lookback <= 0 THEN Raise
    ELSE Anchor(lib.val, Last(prices))

\* The ARIMA member of the ensemble: model.predict(n_periods=days).tolist().
ArimaMember(prices, days, lib) ==
    IF ~lib.ok \/ Len(prices) = 0 THEN Raise ELSE Ret(lib.val)

(***************************************************************************)
(* Ensemble combiner                                                       *)
(***************************************************************************)
ProphetWeight == FromRatio(40, 100)

ArimaWeight == FromRatio(35, 100)

SimpleWeight == FromRatio(25, 100)

\* predictions_list.append(pred); weights.append(w) -- or "except: pass".
Member(out, w) ==
    CHOOSE r \in {IF o.ok THEN <<[pred |-> o.val, weight |-> w]>> ELSE <<>> :
                  o \in {out}} : TRUE

\* Mutant: the weights are taken by position from [0.4, 0.35, 0.25], whoever
\* succeeded.
MembersByPosition(prices, days, libP, libA, coef) ==
    CHOOSE r \in {[i \in 1..Len(ms) |->
                     [pred |-> ms[i].pred,
                      weight |-> <<ProphetWeight, ArimaWeight, SimpleWeight>>[i]]] :
                  ms \in {Member(_prophet_forecast(prices, days, libP), ProphetWeight)
                          \o Member(ArimaMember(prices, days, libA), ArimaWeight)
                          \o Member(_simple_fallback(prices, days, coef), SimpleWeight)}} :
        TRUE

\* predictions_list and weights after the three member blocks.
Members(prices, days, libP, libA, coef) ==
    Member(_prophet_forecast(prices, days, libP), ProphetWeight)
    \o Member(ArimaMember(prices, days, libA), ArimaWeight)
    \o Member(_simple_fallback(prices, days, coef), SimpleWeight)

\* [w / total_weight for w in weights]
Divided(ms, total_weight) == [i \in 1..Len(ms) |-> FDiv(ms[i].weight, total_weight)]

\* weights after "Normalize weights".
NormalizedWeights(ms) ==
    CHOOSE r \in {Divided(ms, t) : t \in {FSum([i \in 1..Len(ms) |-> ms[i].weight])}} :
        TRUE

Weighted(ms, weights, days) ==
    [day \in 1..days |->
        FSum([i \in 1..Len(ms) |-> FMul(ms[i].pred[day], weights[i])])]

\* The weighted average, before anchoring.
WeightedAverage(ms, days) ==
    CHOOSE r \in {Weighted(ms, w, days) : w \in {NormalizedWeights(ms)}} : TRUE

\* Mutant: the weighted average is returned as it is.
CombineUnanchored(ms, prices, days) ==
    IF Len(ms) = 0
    THEN (IF Len(prices) = 0 THEN Raise ELSE Ret(Repeat(Last(prices), days)))
    ELSE IF days = 0 THEN Raise
    ELSE Ret(WeightedAverage(ms, days))

\* _ensemble_forecast from "if not predictions_list" on.
Combine(ms, prices, days) ==
    IF Len(ms) = 0
    THEN (IF Len(prices) = 0 THEN Raise ELSE Ret(Repeat(Last(prices), days)))
    ELSE Anchor(WeightedAverage(ms, days), Last(prices))

\* Mutant: the ensemble raises when neither fitted model produced a curve.
_ensemble_forecast_models_only(prices, days, libP, libA, coef) ==
    IF ~_prophet_forecast(prices, days, libP).ok /\ ~ArimaMember(prices, days, libA).ok
    THEN Raise
    ELSE CHOOSE r \in {Combine(ms, prices, days) :
                       ms \in {Members(prices, days, libP, libA, coef)}} : TRUE

_ensemble_forecast(prices, days, libP, libA, coef) ==
    CHOOSE r \in {Combine(ms, prices, days) :
                  ms \in {Members(prices, days, libP, libA, coef)}} : TRUE

(***************************************************************************)
(* Inputs                                                                  *)
(***************************************************************************)
\* Prices drawn: 0.00002, 0.007, 0.01 and 100 (to Prec bits).
Prices == {FromRatio(1, 50000), FromRatio(7, 1000), LowPrice, FromInt(100)}

\* A series of n prices: a ... a b.
Series(n, a, b) == [i \in 1..n |-> IF i = n THEN b ELSE a]

InputSeries(P) == {Series(n, a, b) : n \in 0..MaxLen, a \in P, b \in P}

\* Values a fitted model predicts, and slopes np.polyfit fits.
PredVals == {FromInt(9), FromInt(11)}

CoefVals == {Zero, FromInt(4), FNeg(FromRatio(1, 1000))}

Curves(d) == [1..d -> PredVals]

LibOutcomes(d) == {Raise} \cup {Ret(c) : c \in Curves(d)}

NotCalled == [ok |-> FALSE, val |-> <<>>]

(***************************************************************************)
(* State                                                                   *)
(***************************************************************************)
VARIABLES
    fn,             \* the function called
    prices,         \* its argument prices (the caller's list)
    days,           \* its argument days
    pc,             \* position in the call
    scale_factor,   \* generate_forecast's local; 0 while unassigned
    scaled_prices,  \* generate_forecast's local
    attempts,       \* forecasters generate_forecast has run, in order
    drawn,          \* what the libraries returned in this call
    forecast,       \* the producing forecaster's output
    result,         \* the value returned
    outcome,        \* "none", "returned" or "raised"
    status_code,    \* HTTP status of get_forecast's response; 0 while none
    users,                  \* db.users, in insertion order
    pending_registrations,  \* db.pending_registrations, in insertion order
    password_resets,        \* db.password_resets, in insertion order
    now,                    \* datetime.utcnow(), in seconds
    requests,               \* the auth requests being served, by connection
    served                  \* how many auth requests have been accepted

vars == <<fn, prices, days, pc, scale_factor, scaled_prices, attempts, drawn,
          forecast, result, outcome, status_code, users, pending_registrations,
          password_resets, now, requests, served>>

\* The state of the web layer, which the forecasting code never touches.
webVars == <<status_code, users, pending_registrations, password_resets, now,
             requests, served>>

\* The state of the forecasting call, which the auth handlers never touch.
callVars == <<fn, prices, days, pc, scale_factor, scaled_prices, attempts, drawn,
              forecast, result, outcome, status_code>>

NoDraw == [xgboost |-> NotCalled, prophet |-> NotCalled, arima |-> NotCalled,
           lstm |-> NotCalled, coef |-> Zero]

InitCall(f, P) ==
    /\ fn = f
    /\ prices \in InputSeries(P)
    /\ days \in 0..MaxDays
    /\ pc = "call"
    /\ scale_factor = 0
    /\ scaled_prices = <<>>
    /\ attempts = <<>>
    /\ drawn = NoDraw
    /\ forecast = <<>>
    /\ result = <<>>
    /\ outcome = "none"
    /\ status_code = 0
    /\ users = <<>>
    /\ pending_registrations = <<>>
    /\ password_resets = <<>>
    /\ now = 0
    /\ requests = <<>>
    /\ served = 0

Init == InitCall("generate_forecast", Prices)

\* A forecaster run by generate_forecast: on what, and what came of it.
Attempt(stage, arg, out) == [stage |-> stage, arg |-> arg, ok |-> out.ok, val |-> out.val]

\* Mutant: the forecast is returned without descaling.
ReturnedRaw(f, sf) == f

\* "return _descale_prices(forecast, scale_factor) if scale_factor > 1 else forecast"
Returned(f, sf) == IF sf > 1 THEN _descale_prices(f, sf) ELSE f

(***************************************************************************)
(* generate_forecast                                                       *)
(***************************************************************************)
\* Mutant: the empty-input guard is missing and the call reaches the fallback.
ReturnEmptyUnguarded ==
    /\ fn = "generate_forecast" /\ pc = "call"
    /\ Len(prices) = 0
    /\ \E out \in {_simple_fallback(prices, days, Zero)} :
        /\ attempts' = Append(attempts, Attempt("fallback", prices, out))
        /\ result' = out.val
        /\ outcome' = IF out.ok THEN "returned" ELSE "raised"
    /\ pc' = "done"
    /\ UNCHANGED webVars
    /\ UNCHANGED <<fn, prices, days, scale_factor, scaled_prices, drawn, forecast>>

\* if not prices: return []
ReturnEmpty ==
    /\ fn = "generate_forecast" /\ pc = "call"
    /\ Len(prices) = 0
    /\ result' = <<>>
    /\ outcome' = "returned"
    /\ pc' = "done"
    /\ UNCHANGED webVars
    /\ UNCHANGED <<fn, prices, days, scale_factor, scaled_prices, attempts, drawn,
                   forecast>>

MinPoints == 30

\* Mutant: the threshold test is len(prices) <= 30.
ShortSeriesInclusive ==
    /\ fn = "generate_forecast" /\ pc = "call"
    /\ Len(prices) > 0 /\ Len(prices) <= MinPoints
    /\ \E coef \in CoefVals :
        \E out \in {_simple_fallback(prices, days, coef)} :
            /\ drawn' = [drawn EXCEPT !.coef = coef]
            /\ attempts' = Append(attempts, Attempt("fallback", prices, out))
            /\ forecast' = out.val
            /\ result' = out.val
            /\ outcome' = IF out.ok THEN "returned" ELSE "raised"
    /\ pc' = "done"
    /\ UNCHANGED webVars
    /\ UNCHANGED <<fn, prices, days, scale_factor, scaled_prices>>

\* if len(prices) < 30: return _simple_fallback(prices, days)
ShortSeries ==
    /\ fn = "generate_forecast" /\ pc = "call"
    /\ Len(prices) > 0 /\ Len(prices) < MinPoints
    /\ \E coef \in CoefVals :
        \E out \in {_simple_fallback(prices, days, coef)} :
            /\ drawn' = [drawn EXCEPT !.coef = coef]
            /\ attempts' = Append(attempts, Attempt("fallback", prices, out))
            /\ forecast' = out.val
            /\ result' = out.val
            /\ outcome' = IF out.ok THEN "returned" ELSE "raised"
    /\ pc' = "done"
    /\ UNCHANGED webVars
    /\ UNCHANGED <<fn, prices, days, scale_factor, scaled_prices>>

\* Mutant: the factor is computed but the series is passed on unscaled.
Normalize_Unscaled ==
    /\ fn = "generate_forecast" /\ pc = "call"
    /\ Len(prices) >= MinPoints
    /\ scale_factor' = _calculate_scale_factor(prices)
    /\ scaled_prices' = prices
    /\ pc' = "xgboost"
    /\ UNCHANGED webVars
    /\ UNCHANGED <<fn, prices, days, attempts, drawn, forecast, result, outcome>>

\* scale_factor = _calculate_scale_factor(prices); scaled_prices = ...
Normalize_ ==
    /\ fn = "generate_forecast" /\ pc = "call"
    /\ Len(prices) >= MinPoints
    /\ \E sf \in {_calculate_scale_factor(prices)} :
           /\ scale_factor' = sf
           /\ scaled_prices' = IF sf > 1 THEN _scale_prices(prices, sf) ELSE prices
    /\ pc' = "xgboost"
    /\ UNCHANGED webVars
    /\ UNCHANGED <<fn, prices, days, attempts, drawn, forecast, result, outcome>>

\* Mutant: no try around the call, the exception leaves generate_forecast.
TryXgboostUncaught ==
    /\ pc = "xgboost"
    /\ \E lib \in LibOutcomes(days) :
        \E out \in {_xgboost_forecast(scaled_prices, days, lib)} :
            /\ drawn' = [drawn EXCEPT !.xgboost = lib]
            /\ attempts' = Append(attempts, Attempt("xgboost", scaled_prices, out))
            /\ forecast' = out.val
            /\ result' = IF out.ok THEN Returned(out.val, scale_factor) ELSE <<>>
            /\ outcome' = IF out.ok THEN "returned" ELSE "raised"
            /\ pc' = "done"
    /\ UNCHANGED webVars
    /\ UNCHANGED <<fn, prices, days, scale_factor, scaled_prices>>

\* Mutant: a failure of the tree-based forecaster skips the ensemble.
TryXgboostSkip ==
    /\ pc = "xgboost"
    /\ \E lib \in LibOutcomes(days) :
        \E out \in {_xgboost_forecast(scaled_prices, days, lib)} :
            /\ drawn' = [drawn EXCEPT !.xgboost = lib]
            /\ attempts' = Append(attempts, Attempt("xgboost", scaled_prices, out))
            /\ IF out.ok
               THEN /\ forecast' = out.val
                    /\ result' = Returned(out.val, scale_factor)
                    /\ outcome' = "returned"
                    /\ pc' = "done"
               ELSE /\ pc' = "lstm"
                    /\ UNCHANGED <<forecast, result, outcome>>
    /\ UNCHANGED webVars
    /\ UNCHANGED <<fn, prices, days, scale_factor, scaled_prices>>

\* try: forecast = _xgboost_forecast(scaled_prices, days); return ...
TryXgboost ==
    /\ pc = "xgboost"
    /\ \E lib \in LibOutcomes(days) :
        \E out \in {_xgboost_forecast(scaled_prices, days, lib)} :
            /\ drawn' = [drawn EXCEPT !.xgboost = lib]
            /\ attempts' = Append(attempts, Attempt("xgboost", scaled_prices, out))
            /\ IF out.ok
               THEN /\ forecast' = out.val
                    /\ result' = Returned(out.val, scale_factor)
                    /\ outcome' = "returned"
                    /\ pc' = "done"
               ELSE /\ pc' = "ensemble"
                    /\ UNCHANGED <<forecast, result, outcome>>
            \* scaled_prices is the caller's list itself when nothing was scaled.
            /\ \E after \in {ArgumentAfter(scaled_prices, days, lib)} :
                /\ scaled_prices' = after
                /\ prices' = IF scale_factor > 1 THEN prices ELSE after
    /\ UNCHANGED webVars
    /\ UNCHANGED <<fn, days, scale_factor>>

\* try: forecast = _ensemble_forecast(scaled_prices, days); return ...
TryEnsemble ==
    /\ pc = "ensemble"
    /\ \E libP \in LibOutcomes(days), libA \in LibOutcomes(days), coef \in CoefVals :
        \E out \in {_ensemble_forecast(scaled_prices, days, libP, libA, coef)} :
            /\ drawn' = [drawn EXCEPT !.prophet = libP, !.arima = libA, !.coef = coef]
            /\ attempts' = Append(attempts, Attempt("ensemble", scaled_prices, out))
            /\ IF out.ok
               THEN /\ forecast' = out.val
                    /\ result' = Returned(out.val, scale_factor)
                    /\ outcome' = "returned"
                    /\ pc' = "done"
               ELSE /\ pc' = "lstm"
                    /\ UNCHANGED <<forecast, result, outcome>>
    /\ UNCHANGED webVars
    /\ UNCHANGED <<fn, prices, days, scale_factor, scaled_prices>>

\* try: forecast = _lstm_forecast(scaled_prices, days); return ...
TryLstm ==
    /\ pc = "lstm"
    /\ \E lib \in LibOutcomes(days) :
        \E out \in {_lstm_forecast(scaled_prices, days, lib)} :
            /\ drawn' = [drawn EXCEPT !.lstm = lib]
            /\ attempts' = Append(attempts, Attempt("lstm", scaled_prices, out))
            /\ IF out.ok
               THEN /\ forecast' = out.val
                    /\ result' = Returned(out.val, scale_factor)
                    /\ outcome' = "returned"
                    /\ pc' = "done"
               ELSE /\ pc' = "fallback"
                    /\ UNCHANGED <<forecast, result, outcome>>
    /\ UNCHANGED webVars
    /\ UNCHANGED <<fn, prices, days, scale_factor, scaled_prices>>

\* except: forecast = _simple_fallback(scaled_prices, days); return ...
\* np.polyfit is a function of its input: the slope is the one already fitted
\* on scaled_prices inside the ensemble.
FinalFallback ==
    /\ pc = "fallback"
    /\ \E out \in {_simple_fallback(scaled_prices, days, drawn.coef)} :
           /\ attempts' = Append(attempts, Attempt("fallback", scaled_prices, out))
           /\ forecast' = out.val
           /\ result' = IF out.ok THEN Returned(out.val, scale_factor) ELSE <<>>
           /\ outcome' = IF out.ok THEN "returned" ELSE "raised"
    /\ pc' = "done"
    /\ UNCHANGED webVars
    /\ UNCHANGED <<fn, prices, days, scale_factor, scaled_prices, drawn>>

generate_forecast ==
    \/ ReturnEmpty
    \/ ShortSeries
    \/ Normalize_
    \/ TryXgboost
    \/ TryEnsemble
    \/ TryLstm
    \/ FinalFallback

Next == generate_forecast

Spec == Init /\ [][Next]_vars

(***************************************************************************)
(* Direct calls of the helpers, one call per behaviour                     *)
(***************************************************************************)
\* Largest power of ten passed to the round trip.
MaxExp10 == 5

\* What _calculate_scale_factor returns: 1 or 10^k, k >= 3.
ScaleFactors == {1} \cup {Pow10(k) : k \in 3..MaxExp10}

UnitPrices == {Zero, FromRatio(7, 1000), LowPrice, FromInt(100)}

UnitFns == {"_calculate_scale_factor", "_scale_prices/_descale_prices",
            "_simple_fallback", "_xgboost_forecast", "_prophet_forecast",
            "_lstm_forecast", "arima"}

InitUnit == \E f \in UnitFns : InitCall(f, UnitPrices)

Call_calculate_scale_factor ==
    /\ fn = "_calculate_scale_factor" /\ pc = "call"
    /\ scale_factor' = _calculate_scale_factor(prices)
    /\ outcome' = "returned"
    /\ pc' = "done"
    /\ UNCHANGED webVars
    /\ UNCHANGED <<fn, prices, days, scaled_prices, attempts, drawn, forecast, result>>

\* _descale_prices(_scale_prices(prices, f), f)
CallRoundTrip ==
    /\ fn = "_scale_prices/_descale_prices" /\ pc = "call"
    /\ \E f \in ScaleFactors :
        \E scaled \in {_scale_prices(prices, f)} :
            /\ scale_factor' = f
            /\ scaled_prices' = scaled
            /\ result' = _descale_prices(scaled, f)
    /\ outcome' = "returned"
    /\ pc' = "done"
    /\ UNCHANGED webVars
    /\ UNCHANGED <<fn, prices, days, attempts, drawn, forecast>>

\* The call of a forecaster returned or raised `out`.
Called(out) ==
    /\ forecast' = out.val
    /\ result' = out.val
    /\ outcome' = IF out.ok THEN "returned" ELSE "raised"
    /\ pc' = "done"
    /\ UNCHANGED webVars
    /\ UNCHANGED <<fn, prices, days, scale_factor, scaled_prices, attempts>>

Call_simple_fallback ==
    /\ fn = "_simple_fallback" /\ pc = "call"
    /\ \E coef \in CoefVals :
        /\ drawn' = [drawn EXCEPT !.coef = coef]
        /\ \E out \in {_simple_fallback(prices, days, coef)} : Called(out)

Call_xgboost_forecast ==
    /\ fn = "_xgboost_forecast" /\ pc = "call"
    /\ \E lib \in LibOutcomes(days) :
        /\ drawn' = [drawn EXCEPT !.xgboost = lib]
        /\ \E out \in {_xgboost_forecast(prices, days, lib)} : Called(out)

Call_prophet_forecast ==
    /\ fn = "_prophet_forecast" /\ pc = "call"
    /\ \E lib \in LibOutcomes(days) :
        /\ drawn' = [drawn EXCEPT !.prophet = lib]
        /\ \E out \in {_prophet_forecast(prices, days, lib)} : Called(out)

Call_lstm_forecast ==
    /\ fn = "_lstm_forecast" /\ pc = "call"
    /\ \E lib \in LibOutcomes(days) :
        /\ drawn' = [drawn EXCEPT !.lstm = lib]
        /\ \E out \in {_lstm_forecast(prices, days, lib)} : Called(out)

CallArimaMember ==
    /\ fn = "arima" /\ pc = "call"
    /\ \E lib \in LibOutcomes(days) :
        /\ drawn' = [drawn EXCEPT !.arima = lib]
        /\ \E out \in {ArimaMember(prices, days, lib)} : Called(out)

NextUnit ==
    \/ Call_calculate_scale_factor
    \/ CallRoundTrip
    \/ Call_simple_fallback
    \/ Call_xgboost_forecast
    \/ Call_prophet_forecast
    \/ Call_lstm_forecast
    \/ CallArimaMember

SpecUnit == InitUnit /\ [][NextUnit]_vars

(***************************************************************************)
(* A direct call of the ensemble combiner                                  *)
(***************************************************************************)
\* Longest series passed to the ensemble directly.
MaxEnsLen == 3

InitEnsemble ==
    /\ InitCall("_ensemble_forecast", UnitPrices)
    /\ Len(prices) <= MaxEnsLen

\* The three member blocks, then the combination; attempts records what
\* each member block got.
Call_ensemble_forecast ==
    /\ fn = "_ensemble_forecast" /\ pc = "call"
    /\ \E libP \in LibOutcomes(days), libA \in LibOutcomes(days), coef \in CoefVals :
        /\ drawn' = [drawn EXCEPT !.prophet = libP, !.arima = libA, !.coef = coef]
        /\ attempts' = <<Attempt("prophet", prices, _prophet_forecast(prices, days, libP)),
                         Attempt("arima", prices, ArimaMember(prices, days, libA)),
                         Attempt("simple", prices, _simple_fallback(prices, days, coef))>>
        /\ \E out \in {_ensemble_forecast(prices, days, libP, libA, coef)} :
            /\ forecast' = out.val
            /\ result' = out.val
            /\ outcome' = IF out.ok THEN "returned" ELSE "raised"
    /\ pc' = "done"
    /\ UNCHANGED webVars
    /\ UNCHANGED <<fn, prices, days, scale_factor, scaled_prices>>

SpecEnsemble == InitEnsemble /\ [][Call_ensemble_forecast]_vars

(***************************************************************************)
(* Properties of generate_forecast (under Spec)                            *)
(***************************************************************************)
GF == fn = "generate_forecast"

Order == <<"xgboost", "ensemble", "lstm", "fallback">>

\* C1: a call with a non-empty series and days >= 1 that returns, returns
\* exactly `days` values, whichever forecaster produced them and whether or
\* not the series was scaled.
C1_LengthIsDays ==
    (GF /\ outcome = "returned" /\ Len(prices) >= 1 /\ days >= 1)
        => Len(result) = days

C1_Witness ==
    /\ GF /\ outcome = "returned" /\ Len(prices) >= MinPoints
    /\ days = MaxDays /\ scale_factor > 1
    /\ Last(attempts).stage = "ensemble"
    /\ Len(result) = days

\* Position of a call in generate_forecast, in program order.
Rank(p) ==
    CHOOSE i \in 1..6 :
        <<"call", "xgboost", "ensemble", "lstm", "fallback", "done">>[i] = p

\* C2: with a non-empty series and days >= 1 no exception leaves
\* generate_forecast, whichever forecasters raise: the call never ends
\* raised, every step moves it forward in the function, and when it is done
\* it has returned a forecast.
C2_NoExceptionEscapes ==
    /\ []((GF /\ Len(prices) >= 1 /\ days >= 1)
            => /\ outcome # "raised"
               /\ pc = "done" => outcome = "returned")
    /\ [][(GF /\ Len(prices) >= 1 /\ days >= 1) => Rank(pc') > Rank(pc)]_vars

C2_Witness ==
    /\ GF /\ outcome = "returned" /\ days >= 1
    /\ Len(attempts) = 2 /\ ~attempts[1].ok
    /\ ~drawn.prophet.ok /\ ~drawn.arima.ok

\* C3: on the empty series generate_forecast returns [] for any days, having
\* run no forecaster and computed no scale factor, and it does not raise.
C3_EmptyInput ==
    (GF /\ Len(prices) = 0)
        => /\ outcome # "raised"
           /\ attempts = <<>>
           /\ scale_factor = 0 /\ scaled_prices = <<>>
           /\ pc = "done" => (outcome = "returned" /\ result = <<>>)
           /\ pc # "done" => ENABLED Next

C3_Witness ==
    GF /\ Len(prices) = 0 /\ days = MaxDays /\ pc = "done" /\ outcome = "returned"

C5_ShortSeriesToFallback ==
    /\ (GF /\ Len(prices) >= 1 /\ Len(prices) < MinPoints /\ pc = "done")
        => /\ Len(attempts) = 1
           /\ attempts[1].stage = "fallback" /\ attempts[1].arg = prices
           /\ scale_factor = 0
           /\ outcome = "returned"
           /\ result = _simple_fallback(prices, days, drawn.coef).val
    /\ (GF /\ Len(prices) >= MinPoints /\ attempts # <<>>)
        => attempts[1].stage = "xgboost"

C5_Witness ==
    /\ GF /\ Len(prices) = MinPoints - 1 /\ pc = "done" /\ days = MaxDays
    /\ outcome = "returned"
    /\ result # Repeat(Last(prices), days)

(***************************************************************************)
(* Exact comparisons of floats, for stating rounding tolerances            *)
(***************************************************************************)
\* The integer a / 2^e0, for e0 <= a.e or a = 0.
ExactInt(a, e0) == IF a.m = 0 THEN 0 ELSE a.m * Pow2(a.e - e0)

MinExp(a, b) == IF a.m = 0 THEN b.e ELSE IF b.m = 0 THEN a.e
                ELSE IF a.e < b.e THEN a.e ELSE b.e

MaxAbs(x, y) == IF Abs(x) > Abs(y) THEN Abs(x) ELSE Abs(y)

\* |v - c| <= 4u * max(|c|, |p|), with unit roundoff u = 2^-Prec: what two
\* roundings (of c - p and of p + offset, or of x * f and of y / f) allow.
WithinRounding(v, c, p) ==
    \E e0 \in {MinExp(v, [m |-> 1, e |-> MinExp(c, p)])} :
        Abs(ExactInt(v, e0) - ExactInt(c, e0)) * Pow2(Prec - 2)
            <= MaxAbs(ExactInt(c, e0), ExactInt(p, e0))

(***************************************************************************)
(* Properties of the forecasters (under SpecUnit)                          *)
(***************************************************************************)
Anchored == {"_xgboost_forecast", "_prophet_forecast", "_lstm_forecast"}

\* What the library gave the forecaster that was called.
RawCurve == IF fn = "_xgboost_forecast" THEN drawn.xgboost.val
            ELSE IF fn = "_prophet_forecast" THEN drawn.prophet.val
            ELSE drawn.lstm.val

C6_FallbackMoves ==
    /\ fn = "_simple_fallback" /\ outcome = "returned" /\ days >= 1
    /\ result[1] # Last(prices)

(***************************************************************************)
(* Scaling in generate_forecast (under Spec)                               *)
(***************************************************************************)
\* The mean price is positive and below 0.01.
SubCent(ps) ==
    /\ Len(ps) > 0
    /\ \E avg \in {Mean(ps)} : FLt(Zero, avg) /\ FLt(avg, LowPrice)

\* C7 as stated: every forecaster run on a sub-cent series is run on the
\* series multiplied by its scale factor, series under 30 points included.
C7_AlwaysScaled ==
    (GF /\ SubCent(prices))
        => \A i \in 1..Len(attempts) :
              /\ _calculate_scale_factor(prices) > 1
              /\ attempts[i].arg =
                     _scale_prices(prices, _calculate_scale_factor(prices))

\* C7, corrected: a sub-cent series of 30 or more points is multiplied by
\* its scale factor before any forecaster is run on it; a sub-cent series of
\* fewer than 30 points is passed to the trend fallback as it is, and no
\* scale factor is computed.
C7_ScaledFrom30 ==
    /\ (GF /\ Len(prices) >= MinPoints /\ pc # "call" /\ SubCent(prices))
        => /\ scale_factor = _calculate_scale_factor(prices)
           /\ scale_factor > 1
           /\ scaled_prices = _scale_prices(prices, scale_factor)
           /\ \A i \in 1..Len(attempts) : attempts[i].arg = scaled_prices
    /\ (GF /\ Len(prices) < MinPoints /\ attempts # <<>> /\ SubCent(prices))
        => /\ scale_factor = 0
           /\ \A i \in 1..Len(attempts) : attempts[i].arg = prices

C7_Witness ==
    /\ GF /\ SubCent(prices) /\ Len(prices) >= MinPoints
    /\ attempts # <<>> /\ attempts[1].arg # prices
    /\ outcome = "returned" /\ days >= 1

C7_ShortUnscaled ==
    /\ GF /\ SubCent(prices) /\ Len(prices) < MinPoints
    /\ attempts # <<>> /\ attempts[1].arg = prices /\ outcome = "returned"

\* C8: when generate_forecast returns, the result is the output of the
\* forecaster that produced it, each value divided once by the scale factor
\* if the input was scaled by a factor > 1, and unchanged otherwise, on every
\* return path.
C8_DescaleMatchesScale ==
    (GF /\ outcome = "returned" /\ attempts # <<>>)
        => /\ Last(attempts).ok
           /\ scale_factor > 1
                => /\ Last(attempts).arg = _scale_prices(prices, scale_factor)
                   /\ result = _descale_prices(Last(attempts).val, scale_factor)
           /\ scale_factor <= 1
                => /\ Last(attempts).arg = prices
                   /\ result = Last(attempts).val

C8_Witness ==
    /\ GF /\ outcome = "returned" /\ days >= 1 /\ scale_factor > 1
    /\ Last(attempts).stage = "xgboost"
    /\ result # Last(attempts).val

(***************************************************************************)
(* Properties of the scale normalizer (under SpecUnit)                     *)
(***************************************************************************)
RoundTrip == fn = "_scale_prices/_descale_prices" /\ pc = "done"

\* C9 as stated: _descale_prices(_scale_prices(x, f), f) equals x element by
\* element.
C9_RoundTripExact ==
    RoundTrip => result = prices

\* C9, corrected: the round trip keeps the length, and each element is the
\* original up to the rounding of x * f and of (x * f) / f; it is the
\* original exactly when f = 1.
C9_RoundTripClose ==
    RoundTrip
        => /\ Len(result) = Len(prices)
           /\ \A i \in 1..Len(prices) :
                  WithinRounding(result[i], prices[i], prices[i])
           /\ scale_factor = 1 => result = prices

C9_Witness ==
    /\ RoundTrip /\ scale_factor > 1 /\ Len(prices) = MaxLen
    /\ result # prices

\* C10: _calculate_scale_factor returns 1, and does not raise, when the list
\* is empty, when the mean is zero, and when the mean is >= 0.01 (0.01
\* itself included).
C10_NoScaling ==
    (fn = "_calculate_scale_factor" /\ pc = "done")
        => /\ outcome = "returned"
           /\ (Len(prices) = 0
                \/ \E avg \in {Mean(prices)} :
                       avg = Zero \/ FLeq(LowPrice, avg))
                => scale_factor = 1

C10_Witness ==
    /\ fn = "_calculate_scale_factor" /\ pc = "done"
    /\ Len(prices) >= 1 /\ Mean(prices) = LowPrice
    /\ scale_factor = 1

ScaleFactorCall == fn = "_calculate_scale_factor" /\ pc = "done"

\* C11: for a mean m with 0 < m < 0.01, _calculate_scale_factor returns the
\* power of ten 10^k with k = round(log10(10 / m)), and the scaled mean
\* m * 10^k lies in [1, 100).
C11_ScaledMeanNearTen ==
    (ScaleFactorCall /\ SubCent(prices))
        => /\ outcome = "returned"
           /\ \E avg \in {Mean(prices)} :
                /\ scale_factor = Pow10(Log10Round(FDiv(FromInt(10), avg)))
                /\ \E k \in 1..Len(HalfDecade) : scale_factor = Pow10(k)
                /\ FLeq(FromInt(1), FMulInt(avg, scale_factor))
                /\ FLt(FMulInt(avg, scale_factor), FromInt(100))

C11_Witness ==
    /\ ScaleFactorCall /\ SubCent(prices) /\ Len(prices) = MaxLen
    /\ scale_factor = Pow10(5)

\* C12 as stated: for a positive mean below 0.01 the factor is at least
\* 100000.
C12_AtLeast100000 ==
    (ScaleFactorCall /\ SubCent(prices)) => scale_factor >= 100000

\* C12, corrected: for a positive mean below 0.01 the factor is at least
\* 1000; it is at least 100000 when the mean is at most 0.0003 and below
\* 100000 when the mean is at least 0.0004 (the change is at 10^-3.5).
C12_AtLeast1000 ==
    (ScaleFactorCall /\ SubCent(prices))
        => /\ scale_factor >= 1000
           /\ \E avg \in {Mean(prices)} :
                /\ FLeq(avg, FromRatio(3, 10000)) => scale_factor >= 100000
                /\ FLeq(FromRatio(4, 10000), avg) => scale_factor < 100000

C12_Witness ==
    /\ ScaleFactorCall /\ SubCent(prices) /\ Len(prices) >= 1
    /\ scale_factor = 1000

FallbackCall == fn = "_simple_fallback" /\ pc = "done"

\* C13: for a series of at least two positive prices and days >= 1, every
\* value of the trend fallback's forecast lies between 0.8 * last and
\* 1.2 * last, last being the final input price, on every forecast day and
\* for every fitted slope.
C13_ClampedTo20Percent ==
    (FallbackCall /\ Len(prices) >= 2 /\ days >= 1
        /\ \A i \in 1..Len(prices) : prices[i].m > 0)
        => /\ outcome = "returned"
           /\ Len(result) = days
           /\ \E lo \in {FMul(Last(prices), ClampLow)} :
              \E hi \in {FMul(Last(prices), ClampHigh)} :
                 \A i \in 1..days : FLeq(lo, result[i]) /\ FLeq(result[i], hi)

\* The clamp acted: on the last day the unclamped step would have left the
\* band.
C13_Witness ==
    /\ FallbackCall /\ Len(prices) >= 2 /\ days = MaxDays
    /\ \A i \in 1..Len(prices) : prices[i].m > 0
    /\ outcome = "returned"
    /\ result[days] = FMul(Last(prices), ClampHigh)
    /\ FLt(FMul(Last(prices), ClampHigh),
           FAdd(result[days - 1],
                TrendChange(FMul(drawn.coef, Dampen), days - 1)))

C13_LowerClampActs ==
    /\ FallbackCall /\ Len(prices) >= 2 /\ days >= 1 /\ Last(prices).m > 0
    /\ result[days] = FMul(Last(prices), ClampLow)

\* C14: for a one-element series [p] and days >= 1 the trend fallback
\* returns p repeated days times, whatever a fit would give, and
\* generate_forecast returns that same list.
C14_SinglePointRepeated ==
    (GF /\ Len(prices) = 1 /\ days >= 1)
        => /\ \A coef \in CoefVals :
                _simple_fallback(prices, days, coef) = Ret(Repeat(prices[1], days))
           /\ pc = "done"
                => /\ outcome = "returned"
                   /\ result = Repeat(prices[1], days)
                   /\ result = _simple_fallback(prices, days, drawn.coef).val

C14_Witness ==
    /\ GF /\ Len(prices) = 1 /\ days = MaxDays /\ pc = "done"
    /\ outcome = "returned"
    /\ Len(result) = MaxDays /\ result[MaxDays] = prices[1]
    /\ drawn.coef # Zero

\* C15: called with any series, of any length including 0 and 1, and any
\* days >= 1, _simple_fallback returns a forecast of days values and does
\* not raise.
C15_FallbackNeverFails ==
    (FallbackCall /\ days >= 1)
        => outcome = "returned" /\ Len(result) = days

\* The same for the series that have a last price.
C15_NonEmptyNeverFails ==
    (FallbackCall /\ days >= 1 /\ Len(prices) >= 1)
        => outcome = "returned" /\ Len(result) = days

XgboostCall == fn = "_xgboost_forecast" /\ pc = "done"

LstmCall == fn = "_lstm_forecast" /\ pc = "done"

\* C25: the sequence-model forecaster has len(prices) - 30 training examples
\* and raises whenever len(prices) < 31, whatever the library does; a series
\* of exactly 30 points has no example and fails.  From 31 points on it
\* fails only if the library does.
C25_LstmNeedsLookbackPlusOne ==
    (LstmCall /\ days >= 1)
        => /\ Len(prices) < lookback + 1 => outcome = "raised"
           /\ outcome = "raised" <=> (~drawn.lstm.ok \/ Len(prices) - lookback <= 0)
           /\ outcome = "returned" => Len(result) = days

\* Thirty points, a library that would have answered, and the call raised.
C25_Witness ==
    /\ LstmCall /\ days = MaxDays /\ Len(prices) = lookback
    /\ drawn.lstm.ok /\ outcome = "raised"

(***************************************************************************)
(* Properties of the ensemble combiner (under SpecEnsemble)                *)
(***************************************************************************)
EnsembleCall == fn = "_ensemble_forecast" /\ pc = "done"

\* Nominal weights of the member blocks, in program order.
Nominal == <<ProphetWeight, ArimaWeight, SimpleWeight>>

\* The member blocks that did not raise, in program order.
Present ==
    (IF attempts[1].ok THEN <<1>> ELSE <<>>)
    \o (IF attempts[2].ok THEN <<2>> ELSE <<>>)
    \o (IF attempts[3].ok THEN <<3>> ELSE <<>>)

\* Sum of the nominal weights of the present members.
PresentTotal == FSum([k \in 1..Len(Present) |-> Nominal[Present[k]]])

\* Effective weight of the k-th present member.
Effective == [k \in 1..Len(Present) |-> FDiv(Nominal[Present[k]], PresentTotal)]

\* Weighted sum of the present members' values for a day.
DaySum(day) ==
    FSum([k \in 1..Len(Present) |->
              FMul(attempts[Present[k]].val[day], Effective[k])])

\* The result is built from exactly the present members: their weighted
\* sum per day, shifted onto the last price; or the last price repeated when
\* nobody is present.
BuiltFromPresent ==
    IF Present = <<>> THEN result = Repeat(Last(prices), days)
    ELSE \E off \in {FSub(Last(prices), DaySum(1))} :
            result = [day \in 1..days |-> FAdd(DaySum(day), off)]

\* C16: a failure of any member does not make the ensemble fail: for every
\* combination of member successes and failures _ensemble_forecast returns
\* a days-length forecast built from exactly the members that succeeded.
C16_FailureIsolation ==
    (EnsembleCall /\ days >= 1)
        => /\ outcome = "returned"
           /\ Len(result) = days
           /\ BuiltFromPresent

\* The same for the series that have a last price, where the trend-fallback
\* member cannot fail.
C16_IsolationNonEmpty ==
    (EnsembleCall /\ days >= 1 /\ Len(prices) >= 1)
        => /\ outcome = "returned"
           /\ Len(result) = days
           /\ attempts[3].ok
           /\ BuiltFromPresent

\* C17: each present member's effective weight is its own nominal weight
\* divided by the sum of the nominal weights of the present members, the
\* effective weights sum to 1 (to rounding), and each day's value is the
\* weighted sum of the present members' values for that day (shifted by the
\* anchoring offset).
C17_WeightsRenormalized ==
    (EnsembleCall /\ days >= 1 /\ Present # <<>>)
        => /\ outcome = "returned"
           /\ BuiltFromPresent
           /\ WithinRounding(FSum(Effective), FromInt(1), FromInt(1))
           /\ Len(Present) = 1 => Effective[1] = FromInt(1)

C17_Witness ==
    /\ EnsembleCall /\ days = MaxDays /\ outcome = "returned"
    /\ Present = <<2, 3>>
    /\ attempts[2].val # attempts[3].val
    /\ Effective[1] = FDiv(ArimaWeight, FAdd(ArimaWeight, SimpleWeight))

\* C18: when no member succeeds, _ensemble_forecast returns the last price
\* repeated days times and does not raise.
C18_NoMemberLastPrice ==
    (EnsembleCall /\ days >= 1 /\ Present = <<>>)
        => /\ outcome = "returned"
           /\ result = Repeat(Last(prices), days)

\* C19 as stated: the first value returned by _ensemble_forecast equals the
\* last price of the series.
C19_EnsembleAnchoredExactly ==
    (EnsembleCall /\ Len(prices) >= 1 /\ days >= 1)
        => /\ outcome = "returned"
           /\ result[1] = Last(prices)

\* C19, corrected: the first value returned equals the last price up to the
\* rounding of e0 + (last - e0), e0 being the first weighted sum; it is the
\* last price exactly when e0 is within a factor of two of it.
C19_EnsembleAnchored ==
    (EnsembleCall /\ Len(prices) >= 1 /\ days >= 1)
        => /\ outcome = "returned"
           /\ \E e0 \in {DaySum(1)} :
                /\ WithinRounding(result[1], Last(prices), e0)
                /\ (FLeq(Last(prices), FMulInt(e0, 2))
                        /\ FLeq(e0, FMulInt(Last(prices), 2)))
                    => result[1] = Last(prices)

C19_ExactWhenClose ==
    /\ EnsembleCall /\ Len(prices) >= 2 /\ days >= 1 /\ outcome = "returned"
    /\ DaySum(1) # Last(prices)
    /\ FLeq(Last(prices), FMulInt(DaySum(1), 2))
    /\ FLeq(DaySum(1), FMulInt(Last(prices), 2))

C19_Witness ==
    /\ EnsembleCall /\ Len(prices) >= 2 /\ days = MaxDays /\ outcome = "returned"
    /\ Present = <<1, 2, 3>>
    /\ DaySum(1) # Last(prices)
    /\ result[1] # Last(prices)

\* C23 as stated: every member that enters the weighted sum starts at the
\* last price, and the final anchoring leaves the weighted average as it is.
C23_MembersAnchored ==
    (EnsembleCall /\ Len(prices) >= 1 /\ days >= 1 /\ outcome = "returned"
        /\ Present # <<>>)
        => /\ \A k \in 1..Len(Present) : attempts[Present[k]].val[1] = Last(prices)
           /\ result = [day \in 1..days |-> DaySum(day)]

\* C23, corrected: of the members only the statistical forecaster's is
\* anchored (to rounding) when it enters the sum; the ARIMA curve enters as
\* the library returned it and the trend fallback's as the fallback built
\* it; the final anchoring adds last - (first weighted sum) to every day.
C23_OnlyProphetAnchored ==
    (EnsembleCall /\ Len(prices) >= 1 /\ days >= 1 /\ outcome = "returned"
        /\ Present # <<>>)
        => /\ attempts[1].ok
                => WithinRounding(attempts[1].val[1], Last(prices), drawn.prophet.val[1])
           /\ attempts[2].ok => attempts[2].val = drawn.arima.val
           /\ attempts[3].ok
                => attempts[3].val = _simple_fallback(prices, days, drawn.coef).val
           /\ \E off \in {FSub(Last(prices), DaySum(1))} :
                result = [day \in 1..days |-> FAdd(DaySum(day), off)]

\* All three members enter, two of them away from the last price, and the
\* final anchoring moves the weighted average.
C23_Witness ==
    /\ EnsembleCall /\ Len(prices) >= 2 /\ days = MaxDays /\ outcome = "returned"
    /\ Present = <<1, 2, 3>>
    /\ attempts[2].val[1] # Last(prices)
    /\ attempts[3].val[1] # Last(prices)
    /\ FSub(Last(prices), DaySum(1)) # Zero
    /\ result # [day \in 1..days |-> DaySum(day)]

(***************************************************************************)
(* The late stages of generate_forecast (under Spec)                       *)
(***************************************************************************)
\* Under Spec: when the chain reaches the sequence model on a series of
\* exactly 30 points, that stage fails and the result is the trend
\* fallback's.
C25_ThirtyPointsFallBack ==
    GF => \A i \in 1..Len(attempts) :
            (attempts[i].stage = "lstm" /\ Len(attempts[i].arg) = lookback)
                => /\ ~attempts[i].ok
                   /\ pc = "done"
                        => /\ Len(attempts) = i + 1
                           /\ attempts[i + 1].stage = "fallback"
                           /\ attempts[i + 1].arg = attempts[i].arg
                           /\ outcome = "returned"
                           /\ forecast = attempts[i + 1].val
                           /\ result = Returned(forecast, scale_factor)

\* A 30-point series went down the whole chain and the fallback answered.
C25_ChainWitness ==
    /\ GF /\ pc = "done" /\ Len(prices) = lookback /\ outcome = "returned"
    /\ Len(attempts) = 4
    /\ attempts[3].stage = "lstm" /\ ~attempts[3].ok
    /\ attempts[4].stage = "fallback" /\ attempts[4].ok

\* The sequence-model stage or the final fallback stage is or was entered.
LateStage ==
    \/ pc \in {"lstm", "fallback"}
    \/ \E i \in 2..Len(attempts) : attempts[i].stage \in {"lstm", "fallback"}

\* C27 as stated: the sequence-model stage is reached only in executions
\* where _simple_fallback raised inside the ensemble.
C27_LateOnlyIfFallbackRaised ==
    (GF /\ LateStage)
        => ~_simple_fallback(scaled_prices, days, drawn.coef).ok

\* C27, corrected: for days >= 1 the ensemble returns a forecast for every
\* outcome of its members, so when the tree-based forecaster fails the
\* ensemble's result is returned, and neither the sequence-model forecaster
\* nor the final fallback stage is run.
C27_EnsembleEndsChain ==
    (GF /\ days >= 1)
        => /\ ~LateStage
           /\ \A i \in 1..Len(attempts) :
                attempts[i].stage = "ensemble"
                    => /\ attempts[i].ok
                       /\ pc = "done" /\ outcome = "returned"
                       /\ forecast = attempts[i].val
                       /\ result = Returned(forecast, scale_factor)

\* The tree-based forecaster failed, both fitted members of the ensemble
\* failed, and the ensemble's result was returned.
C27_Witness ==
    /\ GF /\ pc = "done" /\ days = MaxDays /\ outcome = "returned"
    /\ Len(attempts) = 2
    /\ attempts[1].stage = "xgboost" /\ ~attempts[1].ok
    /\ attempts[2].stage = "ensemble" /\ attempts[2].ok
    /\ ~drawn.prophet.ok /\ ~drawn.arima.ok
    /\ Len(result) = days

\* With days = 0 the chain reaches the late stages although
\* _simple_fallback returned inside the ensemble.
C27_LateWithZeroDays ==
    /\ GF /\ days = 0 /\ pc = "done" /\ LateStage
    /\ _simple_fallback(scaled_prices, days, drawn.coef).ok

(***************************************************************************)
(* Frame of generate_forecast (under Spec)                                 *)
(***************************************************************************)
\* C20: generate_forecast does not change its input: no step of a call
\* changes the caller's price list, on any path (not the scaling, which
\* builds a new list, and not the tree-based forecaster's prediction loop,
\* which appends to a copy).
C20_InputUnchanged ==
    [][GF => prices' = prices]_vars

\* The tree-based forecaster was given the caller's own list (no scaling)
\* and returned after appending its predictions to the working history.
C20_Witness ==
    /\ GF /\ outcome = "returned" /\ days = MaxDays
    /\ scale_factor = 1 /\ scaled_prices = prices
    /\ Len(attempts) = 1 /\ attempts[1].stage = "xgboost" /\ attempts[1].ok
    /\ Len(WorkingHistory(prices, drawn.xgboost.val)) = Len(prices) + days

(***************************************************************************)
(* The forecast loop of _simple_fallback, one day per step, on long        *)
(* horizons                                                                *)
(***************************************************************************)
\* Longest horizon asked of the loop.
MaxHorizon == 25

\* _simple_fallback past its short-input return, about to enter the loop.
InitLoop ==
    /\ fn = "_simple_fallback"
    /\ \E n \in 2..3, a \in UnitPrices, b \in UnitPrices : prices = Series(n, a, b)
    /\ days \in 1..MaxHorizon
    /\ pc = "loop"
    /\ scale_factor = 0
    /\ scaled_prices = <<>>
    /\ attempts = <<>>
    /\ \E coef \in CoefVals : drawn = [NoDraw EXCEPT !.coef = coef]
    /\ forecast = <<>>
    /\ result = <<>>
    /\ outcome = "none"
    /\ status_code = 0
    /\ users = <<>>
    /\ pending_registrations = <<>>
    /\ password_resets = <<>>
    /\ now = 0
    /\ requests = <<>>
    /\ served = 0

\* One pass of "for i in range(days)"; the return after the last.
LoopDay ==
    /\ fn = "_simple_fallback" /\ pc = "loop"
    /\ \E i \in {Len(forecast)}, slope \in {FMul(drawn.coef, Dampen)} :
        \E last_price \in {IF i = 0 THEN Last(prices) ELSE forecast[i]} :
            \E next_price \in {NextPrice(i, last_price, Last(prices), slope)} :
                /\ forecast' = Append(forecast, next_price)
                /\ IF i + 1 = days
                   THEN /\ result' = forecast'
                        /\ outcome' = "returned"
                        /\ pc' = "done"
                   ELSE UNCHANGED <<result, outcome, pc>>
    /\ UNCHANGED <<fn, prices, days, scale_factor, scaled_prices, attempts, drawn,
                   status_code>>
    /\ UNCHANGED <<users, pending_registrations, password_resets, now, requests,
                   served>>

SpecLoop == InitLoop /\ [][LoopDay]_vars

(***************************************************************************)
(* Properties of the forecast loop (under SpecLoop)                        *)
(***************************************************************************)
\* slope = coefficients[0] * 0.6
Slope == FMul(drawn.coef, Dampen)

\* trend_change of forecast day i, and its magnitude.
Increment(i) == TrendChange(Slope, i)

Magnitude(x) == FMax(x, FNeg(x))

\* The day the loop has just computed (its index i), if any.
LoopAt(i) ==
    /\ fn = "_simple_fallback" /\ pc \in {"loop", "done"}
    /\ Len(forecast) = i + 1

\* C26: the increment of every forecast day, before clamping, is no larger
\* in magnitude than the increment of the day before and never has the sign
\* opposite to the slope's.
C26_DecayedIncrement ==
    \A i \in 0..(MaxHorizon - 1) :
        LoopAt(i)
            => /\ Sgn(Increment(i).m) * Sgn(Slope.m) >= 0
               /\ i >= 1 => FLeq(Magnitude(Increment(i)), Magnitude(Increment(i - 1)))

\* What holds: the same up to forecast day index 20, where the factor
\* 1 - 0.05 * i reaches zero.
C26_DecayedUpToDay20 ==
    \A i \in 0..20 :
        LoopAt(i)
            => /\ Sgn(Increment(i).m) * Sgn(Slope.m) >= 0
               /\ i >= 1 => FLeq(Magnitude(Increment(i)), Magnitude(Increment(i - 1)))

\* Past day 20 the increment has turned against a non-zero slope.
C26_Reversed ==
    \E i \in 21..(MaxHorizon - 1) :
        /\ LoopAt(i)
        /\ Sgn(Increment(i).m) * Sgn(Slope.m) < 0

(***************************************************************************)
(* GET /intelligence/forecast/{symbol}                                     *)
(***************************************************************************)
\* Longest history the price provider returns to the route in this model;
\* it is below MinPoints, where generate_forecast is its first two returns.
MaxHistLen == 3

\* ticker.history(period="6mo"): raises, or returns a frame whose Close
\* column is the list (the empty frame: the empty list).
Histories ==
    {Raise} \cup {Ret(Series(n, a, b)) : n \in 0..MaxHistLen, a \in UnitPrices,
                                         b \in UnitPrices}

\* generate_forecast on a series shorter than MinPoints.
ForecastOfShort(ps, d, coef) ==
    IF Len(ps) = 0 THEN Ret(<<>>) ELSE _simple_fallback(ps, d, coef)

\* What "except Exception" makes of an exception raised in the try block.
\* HTTPException is a subclass of Exception.
StatusOfRaised(raised) == 500

\* The two provider calls: the raw symbol is asked when the -USD ticker
\* returned an empty frame.
Fetched(first, second) ==
    IF first.ok /\ Len(first.val) = 0
    THEN <<Attempt("<SYMBOL>-USD", <<>>, first), Attempt("<SYMBOL>", <<>>, second)>>
    ELSE <<Attempt("<SYMBOL>-USD", <<>>, first)>>

InitRoute ==
    /\ fn = "get_forecast"
    /\ prices = <<>>
    /\ days \in 0..MaxDays
    /\ pc = "call"
    /\ scale_factor = 0
    /\ scaled_prices = <<>>
    /\ attempts = <<>>
    /\ drawn = NoDraw
    /\ forecast = <<>>
    /\ result = <<>>
    /\ outcome = "none"
    /\ status_code = 0
    /\ users = <<>>
    /\ pending_registrations = <<>>
    /\ password_resets = <<>>
    /\ now = 0
    /\ requests = <<>>
    /\ served = 0

\* The provider raised, or both frames were empty, or generate_forecast
\* raised: the exception is raised inside the try block.
RouteRaises(raised) ==
    /\ status_code' = StatusOfRaised(raised)
    /\ outcome' = "raised"
    /\ UNCHANGED <<prices, drawn, forecast, result>>

get_forecast ==
    /\ fn = "get_forecast" /\ pc = "call"
    /\ \E first \in Histories, second \in Histories, coef \in CoefVals :
        \E fetched \in {Fetched(first, second)} :
            /\ attempts' = fetched
            /\ \E hist \in {fetched[Len(fetched)]} :
                IF ~hist.ok THEN RouteRaises(0)
                ELSE IF Len(hist.val) = 0 THEN RouteRaises(404)
                ELSE \E out \in {ForecastOfShort(hist.val, days, coef)} :
                    IF ~out.ok THEN /\ prices' = hist.val
                                    /\ status_code' = StatusOfRaised(0)
                                    /\ outcome' = "raised"
                                    /\ UNCHANGED <<drawn, forecast, result>>
                    ELSE /\ prices' = hist.val
                         /\ drawn' = [drawn EXCEPT !.coef = coef]
                         /\ forecast' = out.val
                         /\ result' = out.val
                         /\ status_code' = 200
                         /\ outcome' = "returned"
    /\ pc' = "done"
    /\ UNCHANGED <<fn, days, scale_factor, scaled_prices>>
    /\ UNCHANGED <<users, pending_registrations, password_resets, now, requests,
                   served>>

SpecRoute == InitRoute /\ [][get_forecast]_vars

(***************************************************************************)
(* Properties of the forecast route (under SpecRoute)                      *)
(***************************************************************************)
RouteDone == fn = "get_forecast" /\ pc = "done"

\* Both provider calls returned an empty frame.
NoHistory ==
    /\ Len(attempts) = 2
    /\ attempts[2].ok /\ Len(attempts[2].val) = 0

\* C21: whenever the provider returns no history for the -USD ticker and for
\* the raw symbol, the route answers with HTTP 404.
C21_NoHistoryIs404 ==
    (RouteDone /\ NoHistory) => status_code = 404

\* What the route does answer in that case.
C21_NoHistoryIs500 ==
    (RouteDone /\ NoHistory) => status_code = 500

(***************************************************************************)
(* The auth routes: register, verify-registration, resend-otp, verify-otp, *)
(* forgot-password, reset-password.  A handler runs on the event loop and  *)
(* gives it up at every await; a step is one database call together with   *)
(* the code up to the next await.                                          *)
(***************************************************************************)
Emails == {"a@x.io", "b@x.io"}

Usernames == {"ann", "bob"}

\* generate_otp(): six random digits.
Otps == {"111111", "222222"}

\* Requests accepted in a behaviour, clock steps and their length.
MaxRequests == 4

MaxTicks == 4

TickSeconds == 300

\* "if otp_age.total_seconds() > 600" and "... > 900"
OtpLifetime == 600

ResetLifetime == 900

\* The connections being served.
Conns == DOMAIN requests

\* None, as find_one returns it; every stored document has an _id above 0.
NoDoc == [_id |-> 0]

\* A connection with no request on it.
Idle ==
    [op |-> "idle", pc |-> "idle", id |-> 0, email |-> "", username |-> "",
     otp_code |-> "", found |-> NoDoc]

Request(op, pc0, e, u, o) ==
    [op |-> op, pc |-> pc0, id |-> served + 1, email |-> e, username |-> u,
     otp_code |-> o, found |-> NoDoc]

\* Collection operations on the first matching document.
Matching(coll, k, v) == {i \in 1..Len(coll) : coll[i][k] = v}

First(S) == CHOOSE i \in S : \A j \in S : i <= j

find_one(coll, k, v) ==
    IF Matching(coll, k, v) = {} THEN NoDoc ELSE coll[First(Matching(coll, k, v))]

RemoveAt(coll, i) ==
    [j \in 1..(Len(coll) - 1) |-> IF j < i THEN coll[j] ELSE coll[j + 1]]

delete_one(coll, k, v) ==
    IF Matching(coll, k, v) = {} THEN coll
    ELSE RemoveAt(coll, First(Matching(coll, k, v)))

insert_one(coll, doc) == Append(coll, doc)

\* update_one(filter, {"$set": {"otp_code": otp, "created_at": t}})
SetOtp(coll, k, v, otp, t) ==
    IF Matching(coll, k, v) = {} THEN coll
    ELSE [coll EXCEPT ![First(Matching(coll, k, v))] =
              [@ EXCEPT !.otp_code = otp, !.created_at = t]]

\* update_one({"email": email}, {"$set": {"password_hash": h}})
SetPassword(coll, k, v, h) ==
    IF Matching(coll, k, v) = {} THEN coll
    ELSE [coll EXCEPT ![First(Matching(coll, k, v))] = [@ EXCEPT !.password_hash = h]]

\* No forecast is being computed.
NoCall ==
    /\ fn = "auth"
    /\ prices = <<>>
    /\ days = 0
    /\ pc = "call"
    /\ scale_factor = 0
    /\ scaled_prices = <<>>
    /\ attempts = <<>>
    /\ drawn = NoDraw
    /\ forecast = <<>>
    /\ result = <<>>
    /\ outcome = "none"
    /\ status_code = 0

\* The server with empty collections, serving one request at a time.
InitRegistration ==
    /\ NoCall
    /\ users = <<>>
    /\ pending_registrations = <<>>
    /\ password_resets = <<>>
    /\ now = 0
    /\ requests = <<Idle>>
    /\ served = 0

\* A pending registration as register leaves it.
Pending(i, e, u, otp, t) ==
    [_id |-> i, email |-> e, username |-> u, password_hash |-> "hash",
     otp_code |-> otp, created_at |-> t]

Goto(c, p) == requests' = [requests EXCEPT ![c].pc = p]

GotoWith(c, p, doc) == requests' = [requests EXCEPT ![c].pc = p, ![c].found = doc]

\* The handler returns, or raises HTTPException(code): the response is sent
\* and the connection is free again.
Respond(c, code) == requests' = [requests EXCEPT ![c] = Idle]

\* A request arrives on the first free connection.  POST /verify-otp calls
\* verify_registration with the same arguments, so it arrives as one.
Arrives(c, r) ==
    /\ requests[c].op = "idle"
    /\ \A b \in 1..(c - 1) : requests[b].op # "idle"
    /\ served < MaxRequests
    /\ requests' = [requests EXCEPT ![c] = r]
    /\ served' = served + 1
    /\ UNCHANGED <<users, pending_registrations, password_resets, now>>
    /\ UNCHANGED callVars

ArriveRegistration(c) ==
    \E e \in Emails, u \in Usernames, o \in Otps :
        \E r \in {Request("register", "find_email", e, u, ""),
                  Request("verify_registration", "find_pending", e, "", o),
                  Request("resend_otp", "find_pending", e, "", "")} :
            Arrives(c, r)

ArrivePassword(c) ==
    \E e \in Emails, o \in Otps :
        \E r \in {Request("forgot_password", "find_user", e, "", ""),
                  Request("reset_password", "find_reset", e, "", o)} :
            Arrives(c, r)

\* datetime.utcnow() moves on.
Tick ==
    /\ fn = "auth"
    /\ now < MaxTicks * TickSeconds
    /\ now' = now + TickSeconds
    /\ UNCHANGED <<users, pending_registrations, password_resets, requests, served>>
    /\ UNCHANGED callVars

register(c) ==
    /\ requests[c].op = "register"
    /\ \/ /\ requests[c].pc = "find_email"
          /\ IF find_one(users, "email", requests[c].email)._id # 0
             THEN Respond(c, 400)
             ELSE Goto(c, "find_username")
          /\ UNCHANGED <<users, pending_registrations>>
       \/ /\ requests[c].pc = "find_username"
          /\ IF find_one(users, "username", requests[c].username)._id # 0
             THEN Respond(c, 400)
             ELSE Goto(c, "find_pending")
          /\ UNCHANGED <<users, pending_registrations>>
       \/ /\ requests[c].pc = "find_pending"
          /\ \E existing_pending \in
                 {find_one(pending_registrations, "email", requests[c].email)} :
              IF existing_pending._id # 0
              THEN GotoWith(c, "delete_old", existing_pending)
              ELSE Goto(c, "insert")
          /\ UNCHANGED <<users, pending_registrations>>
       \/ /\ requests[c].pc = "delete_old"
          /\ pending_registrations' =
                 delete_one(pending_registrations, "_id", requests[c].found._id)
          /\ Goto(c, "insert")
          /\ UNCHANGED users
       \/ /\ requests[c].pc = "insert"
          /\ \E otp \in Otps :
              pending_registrations' =
                  insert_one(pending_registrations,
                             Pending(requests[c].id, requests[c].email,
                                     requests[c].username, otp, now))
          \* send_otp_email changes nothing a handler reads; the response follows.
          /\ Respond(c, 200)
          /\ UNCHANGED users
    /\ UNCHANGED <<password_resets, now, served>>
    /\ UNCHANGED callVars

\* Mutant: the OTP of the request is not compared with the stored one.
WrongOtpIgnored(stored, given) == FALSE

\* if pending["otp_code"] != otp_data.otp_code
WrongOtp(stored, given) == stored # given

\* verify_otp returns verify_registration(otp_data, db).
verify_registration(c) ==
    /\ requests[c].op \in {"verify_registration", "verify_otp"}
    /\ \/ /\ requests[c].pc = "find_pending"
          /\ \E pending \in
                 {find_one(pending_registrations, "email", requests[c].email)} :
              IF pending._id = 0 THEN Respond(c, 400)
              ELSE IF WrongOtp(pending.otp_code, requests[c].otp_code)
                   THEN Respond(c, 400)
              ELSE IF now - pending.created_at > OtpLifetime
                   THEN GotoWith(c, "delete_expired", pending)
                   ELSE GotoWith(c, "insert_user", pending)
          /\ UNCHANGED <<users, pending_registrations>>
       \/ /\ requests[c].pc = "delete_expired"
          /\ pending_registrations' =
                 delete_one(pending_registrations, "_id", requests[c].found._id)
          /\ Respond(c, 400)
          /\ UNCHANGED users
       \/ /\ requests[c].pc = "insert_user"
          /\ users' = insert_one(users,
                                 [_id |-> requests[c].id,
                                  email |-> requests[c].found.email,
                                  username |-> requests[c].found.username,
                                  password_hash |-> requests[c].found.password_hash,
                                  is_verified |-> TRUE])
          /\ Goto(c, "delete_pending")
          /\ UNCHANGED pending_registrations
       \/ /\ requests[c].pc = "delete_pending"
          /\ pending_registrations' =
                 delete_one(pending_registrations, "_id", requests[c].found._id)
          /\ Respond(c, 200)
          /\ UNCHANGED users
    /\ UNCHANGED <<password_resets, now, served>>
    /\ UNCHANGED callVars

resend_otp(c) ==
    /\ requests[c].op = "resend_otp"
    /\ \/ /\ requests[c].pc = "find_pending"
          /\ \E pending \in
                 {find_one(pending_registrations, "email", requests[c].email)} :
              IF pending._id = 0 THEN Respond(c, 400)
              ELSE GotoWith(c, "update", pending)
          /\ UNCHANGED pending_registrations
       \/ /\ requests[c].pc = "update"
          /\ \E new_otp \in Otps :
              pending_registrations' =
                  SetOtp(pending_registrations, "_id", requests[c].found._id,
                         new_otp, now)
          /\ Respond(c, 200)
    /\ UNCHANGED <<users, password_resets, now, served>>
    /\ UNCHANGED callVars

forgot_password(c) ==
    /\ requests[c].op = "forgot_password"
    /\ \/ /\ requests[c].pc = "find_user"
          /\ IF find_one(users, "email", requests[c].email)._id = 0
             THEN Respond(c, 404)
             ELSE Goto(c, "upsert")
          /\ UNCHANGED password_resets
       \/ /\ requests[c].pc = "upsert"
          /\ \E otp \in Otps :
              password_resets' =
                  IF Matching(password_resets, "email", requests[c].email) = {}
                  THEN insert_one(password_resets,
                                  [_id |-> requests[c].id,
                                   email |-> requests[c].email,
                                   otp_code |-> otp,
                                   created_at |-> now])
                  ELSE SetOtp(password_resets, "email", requests[c].email, otp, now)
          /\ Respond(c, 200)
    /\ UNCHANGED <<users, pending_registrations, now, served>>
    /\ UNCHANGED callVars

reset_password(c) ==
    /\ requests[c].op = "reset_password"
    /\ \/ /\ requests[c].pc = "find_reset"
          /\ \E reset_request \in
                 {find_one(password_resets, "email", requests[c].email)} :
              IF reset_request._id = 0 THEN Respond(c, 400)
              ELSE IF reset_request.otp_code # requests[c].otp_code THEN Respond(c, 400)
              ELSE IF now - reset_request.created_at > ResetLifetime
                   THEN GotoWith(c, "delete_expired", reset_request)
                   ELSE GotoWith(c, "update_password", reset_request)
          /\ UNCHANGED <<users, password_resets>>
       \/ /\ requests[c].pc = "delete_expired"
          /\ password_resets' =
                 delete_one(password_resets, "_id", requests[c].found._id)
          /\ Respond(c, 400)
          /\ UNCHANGED users
       \/ /\ requests[c].pc = "update_password"
          /\ users' = SetPassword(users, "email", requests[c].email, "new hash")
          /\ Goto(c, "delete_reset")
          /\ UNCHANGED password_resets
       \/ /\ requests[c].pc = "delete_reset"
          /\ password_resets' =
                 delete_one(password_resets, "_id", requests[c].found._id)
          /\ Respond(c, 200)
          /\ UNCHANGED users
    /\ UNCHANGED <<pending_registrations, now, served>>
    /\ UNCHANGED callVars

NextRegistration ==
    \/ Tick
    \/ \E c \in Conns :
        \/ ArriveRegistration(c)
        \/ register(c)
        \/ verify_registration(c)
        \/ resend_otp(c)

SpecRegistration == InitRegistration /\ [][NextRegistration]_vars

\* Two requests served at once.  The server after a registration of each
\* email, with room for two more requests.
InitConcurrent ==
    /\ NoCall
    /\ users = <<>>
    /\ \E e1 \in Emails, e2 \in Emails, u1 \in Usernames, u2 \in Usernames,
          o1 \in Otps, o2 \in Otps :
        /\ e1 # e2
        /\ pending_registrations = <<Pending(1, e1, u1, o1, 0), Pending(2, e2, u2, o2, 0)>>
    /\ password_resets = <<>>
    /\ now = 0
    /\ requests = <<Idle, Idle>>
    /\ served = MaxRequests - 2

SpecConcurrent == InitConcurrent /\ [][NextRegistration]_vars

\* An account as register and verify-registration leave it.
Account(e, u) ==
    [_id |-> 1, email |-> e, username |-> u, password_hash |-> "hash",
     is_verified |-> TRUE]

\* The server with one account, serving one request at a time.
InitPassword ==
    /\ NoCall
    /\ \E e \in Emails, u \in Usernames : users = <<Account(e, u)>>
    /\ pending_registrations = <<>>
    /\ password_resets = <<>>
    /\ now = 0
    /\ requests = <<Idle>>
    /\ served = 0

NextPassword ==
    \/ Tick
    \/ \E c \in Conns :
        \/ ArrivePassword(c)
        \/ forgot_password(c)
        \/ reset_password(c)

SpecPassword == InitPassword /\ [][NextPassword]_vars

(***************************************************************************)
(* Properties of the auth routes                                           *)
(***************************************************************************)
\* C22: users changes only by an insert made by a verify-registration call
\* whose OTP is the one it found stored in the pending registration of its
\* email, and the inserted account is that registration's; register and
\* resend-otp, and a verify-registration with a wrong OTP or without a
\* pending registration, leave users unchanged.
C22_OnlyVerifiedInserts ==
    [][users' # users =>
        \E c \in Conns :
            /\ requests[c].op = "verify_registration"
            /\ \E p \in {requests[c].found} :
                /\ p._id # 0
                /\ p.email = requests[c].email
                /\ p.otp_code = requests[c].otp_code
                /\ Len(users') = Len(users) + 1
                /\ SubSeq(users', 1, Len(users)) = users
                /\ users'[Len(users')].email = p.email
                /\ users'[Len(users')].username = p.username]_vars

\* The stronger reading, that the OTP is still the stored one at the moment
\* of the insert: it holds for requests served one after another only;
\* between the read and the insert of one request another may replace the
\* OTP or delete the registration.
C22_StillStoredAtInsert ==
    [][users' # users =>
        \E c \in Conns :
            /\ requests[c].op = "verify_registration"
            /\ \E p \in {find_one(pending_registrations, "email", requests[c].email)} :
                /\ p._id # 0
                /\ p.otp_code = requests[c].otp_code]_vars

\* An account was created while the other registration is still pending and
\* a request is being served.
C22_Witness ==
    /\ fn = "auth"
    /\ Len(users) = 1 /\ Len(pending_registrations) = 1
    /\ users[1].email # pending_registrations[1].email
    /\ \E c \in Conns : requests[c].op = "resend_otp"

\* C28: no two documents of users have the same username, after any
\* sequence of register and verify-registration calls served one after
\* another.
C28_UsernamesUnique ==
    fn = "auth"
        => \A i \in 1..Len(users), j \in 1..Len(users) :
            users[i].username = users[j].username => i = j

\* What register does keep unique when requests are served one after
\* another: the email.
C28_EmailsUnique ==
    fn = "auth"
        => \A i \in 1..Len(users), j \in 1..Len(users) :
            users[i].email = users[j].email => i = j

\* Two accounts with one username and different emails.
C28_SameUsernameTwice ==
    /\ fn = "auth" /\ Len(users) = 2
    /\ users[1].username = users[2].username
    /\ users[1].email # users[2].email

\* C29: two verify-registration requests with the same email and the correct
\* OTP, served at once with their reads, insert and delete interleaved in
\* any order, insert at most one document into users for the pending
\* registration.
C29_OneAccountPerPending ==
    fn = "auth"
        => \A e \in Emails : Cardinality(Matching(users, "email", e)) <= 1

\* Both requests read the pending registration before either deleted it,
\* and both inserted.
C29_TwoAccounts ==
    /\ fn = "auth" /\ Len(users) = 2
    /\ users[1].email = users[2].email
    /\ users[1].username = users[2].username
    /\ users[1]._id # users[2]._id

\* Request c passes the expiry test of its handler in this step.
Accepts(c, handler, read, next) ==
    /\ c \in DOMAIN requests /\ c \in DOMAIN requests'
    /\ requests[c].op = handler /\ requests[c].pc = read
    /\ requests'[c].op = handler /\ requests'[c].pc = next

\* C30: neither verify-registration nor reset-password accepts a code
\* issued, or re-issued by resend-otp or forgot-password, more than 600
\* seconds earlier.
C30_NotAcceptedAfter600 ==
    [][\A c \in Conns :
        (\/ Accepts(c, "verify_registration", "find_pending", "insert_user")
         \/ Accepts(c, "reset_password", "find_reset", "update_password"))
            => now - requests'[c].found.created_at <= OtpLifetime]_vars

\* What holds of verify-registration (under SpecRegistration).
C30_VerifyRejectsAfter600 ==
    [][\A c \in Conns :
        Accepts(c, "verify_registration", "find_pending", "insert_user")
            => now - requests'[c].found.created_at <= OtpLifetime]_vars

\* What holds of reset-password (under SpecPassword): 900 seconds.
C30_ResetRejectsAfter900 ==
    [][\A c \in Conns :
        Accepts(c, "reset_password", "find_reset", "update_password")
            => now - requests'[c].found.created_at <= ResetLifetime]_vars

====
